---------------------------- MODULE Spec2Model ----------------------------
(***************************************************************************)
(* Model of the dice gadget firmware (solution.ino): three debounced       *)
(* buttons, a multiplexed 4-cell display with a roll animation, the dice   *)
(* engine and the controller loop().                                       *)
(*                                                                         *)
(* Objects are records, methods are operators taking and returning the     *)
(* record, and one pass of loop() is the action Tick.  The hardware        *)
(* services are inputs of Tick: millis() is the new clock value, each      *)
(* digitalRead is a pin level, random(n) is a draw from RandomOutcomes(n). *)
(***************************************************************************)
EXTENDS Integers, Sequences, FiniteSets, TLC

VARIABLES
    current_state,   \* Program_state current_state
    dice,            \* Dice dice
    roll_button,     \* Button roll_button
    type_button,     \* Button type_button
    amount_button,   \* Button amount_button
    disp,            \* Display disp
    millis,          \* value of the millisecond counter at the latest read
    roll_signal,     \* local of loop(): signals obtained in the latest tick
    type_signal,
    amount_signal,
    calls,           \* operations loop() performed in the latest tick, in order
    before,          \* current_state and dice as they were before the latest tick
    type_history,    \* the latest values of the type index, oldest first
    amount_history,  \* the latest values of the die count, oldest first
    ticks,           \* number of passes of loop() since setup()
    clock,           \* milliseconds since power-on, not wrapped (millis wraps it)
    probe,           \* history of the polls and writes of the unit specifications
    shown            \* what the latest operation shifted out to the display

vars == << current_state, dice, roll_button, type_button, amount_button, disp,
           millis, roll_signal, type_signal, amount_signal, calls, before,
           type_history, amount_history, ticks, clock, probe, shown >>

-----------------------------------------------------------------------------
(* unsigned long: a counter of TimeBits bits, all arithmetic modulo 2^TimeBits *)
TimeBits == 6
Modulus == 2 ^ TimeBits
UL(x) == ((x % Modulus) + Modulus) % Modulus

(* C++ integer division and remainder truncate toward zero *)
CDiv(a, b) == IF a >= 0 THEN a \div b ELSE -((-a) \div b)
CRem(a, b) == IF a >= 0 THEN a % b ELSE -((-a) % b)

-----------------------------------------------------------------------------
(* enum Button_signal, enum Program_state *)
RELEASED == "RELEASED"
PRESSED == "PRESSED"
NOTHING == "NOTHING"
Button_signal == {RELEASED, PRESSED, NOTHING}

CONFIG == "CONFIG"
IDLE == "IDLE"
GENERATING == "GENERATING"
Program_state == {CONFIG, IDLE, GENERATING}

dice_types == << 4, 6, 8, 10, 12, 20, 100 >>
dice_types_length == Len(dice_types)
start_state == CONFIG

(* dice_types[i] with the 0-based index of the source *)
DiceTypeAt(i) == dice_types[i + 1]

-----------------------------------------------------------------------------
(* class Dice *)
max_dice_amount == 9
start_dice_type_index == 1
start_dice_amount == 1
clear_memory_value == -1

Dice_init ==
    [ roll_start_time |-> 0,
      current_type_index |-> start_dice_type_index,
      current_dice_amount |-> start_dice_amount,
      last_roll |-> clear_memory_value,
      is_first_roll |-> TRUE ]

start_roll(d, time_now) == [d EXCEPT !.roll_start_time = time_now]

(* the values of random(n) the model draws: the two ends of its range [0, n) *)
RandomOutcomes(n) == {0, n - 1}

(* the sequences of draws one refresh_all_dice consumes: one per die in use *)
DrawSeqs(d) ==
    [1..d.current_dice_amount -> RandomOutcomes(DiceTypeAt(d.current_type_index))]

(* a slip the properties must notice: the draw is used without the + 1 *)
refresh_all_dice_ZeroBased(d, draws) ==
    [i \in 1..d.current_dice_amount |-> draws[i]]

(* refresh_all_dice: dice[i] = random(faces) + 1 for the dice in use *)
refresh_all_dice(d, draws) ==
    [i \in 1..d.current_dice_amount |-> draws[i] + 1]

RECURSIVE SumUpTo(_, _)
SumUpTo(values, n) == IF n = 0 THEN 0 ELSE SumUpTo(values, n - 1) + values[n]

(* get_dice_sum over the dice in use *)
get_dice_sum(d, values) == SumUpTo(values, d.current_dice_amount)

(* finish_roll: the dice array is written and read within the call only, so it
   is a local here; randomSeed has no effect on the set of possible draws *)
finish_roll(d, time_now, draws) ==
    [d EXCEPT !.is_first_roll = FALSE,
              !.last_roll = get_dice_sum(d, refresh_all_dice(d, draws))]

(* a slip the properties must notice: the wrap leaves out the last table entry *)
next_dice_type_ShortCycle(d) ==
    [d EXCEPT !.current_type_index =
        (d.current_type_index + 1) % (dice_types_length - 1)]

next_dice_type(d) ==
    [d EXCEPT !.current_type_index = (d.current_type_index + 1) % dice_types_length]

get_dice_type(d) == DiceTypeAt(d.current_type_index)

RECURSIVE DigitsOf(_)
DigitsOf(v) == IF v > 0 THEN 1 + DigitsOf(v \div 10) ELSE 0

get_max_digits_amount(d) ==
    DigitsOf(DiceTypeAt(d.current_type_index) * d.current_dice_amount)

(* a slip the properties must notice: the count wraps to 0 instead of 1 *)
next_dice_amount_ToZero(d) ==
    [d EXCEPT !.current_dice_amount =
        IF d.current_dice_amount + 1 > max_dice_amount
        THEN 0 ELSE d.current_dice_amount + 1]

next_dice_amount(d) ==
    [d EXCEPT !.current_dice_amount =
        IF d.current_dice_amount + 1 > max_dice_amount
        THEN 1 ELSE d.current_dice_amount + 1]

get_dice_amount(d) == d.current_dice_amount

reset_roll_memory(d) == [d EXCEPT !.last_roll = clear_memory_value]

(* a slip the properties must notice: the memory test uses 0 as the sentinel *)
has_roll_in_memory_Zero(d) == d.last_roll # 0

has_roll_in_memory(d) == d.last_roll # clear_memory_value

get_last_roll(d) == d.last_roll

-----------------------------------------------------------------------------
(* class Button *)
debounce_time == 5

Button_init == [debouncing |-> FALSE, down |-> FALSE, last_event |-> 0]

(* a slip the properties must notice: a press is signalled without being
   remembered in the down flag *)
get_signal_ForgetsDown(b, time_now, is_pressed) ==
    IF b.debouncing
    THEN [ button |-> [b EXCEPT !.debouncing =
                            ~(UL(time_now - b.last_event) >= debounce_time)],
           signal |-> NOTHING ]
    ELSE IF b.down
         THEN IF ~is_pressed
              THEN [ button |-> [debouncing |-> TRUE, down |-> FALSE,
                                 last_event |-> time_now],
                     signal |-> RELEASED ]
              ELSE [ button |-> b, signal |-> NOTHING ]
         ELSE IF is_pressed
              THEN [ button |-> [debouncing |-> TRUE, down |-> b.down,
                                 last_event |-> time_now],
                     signal |-> PRESSED ]
              ELSE [ button |-> b, signal |-> NOTHING ]

(* a slip the properties must notice: a release is signalled while the down
   flag stays set *)
get_signal_ReleaseKeepsDown(b, time_now, is_pressed) ==
    IF b.debouncing
    THEN [ button |-> [b EXCEPT !.debouncing =
                            ~(UL(time_now - b.last_event) >= debounce_time)],
           signal |-> NOTHING ]
    ELSE IF b.down
         THEN IF ~is_pressed
              THEN [ button |-> [debouncing |-> TRUE, down |-> b.down,
                                 last_event |-> time_now],
                     signal |-> RELEASED ]
              ELSE [ button |-> b, signal |-> NOTHING ]
         ELSE IF is_pressed
              THEN [ button |-> [debouncing |-> TRUE, down |-> TRUE,
                                 last_event |-> time_now],
                     signal |-> PRESSED ]
              ELSE [ button |-> b, signal |-> NOTHING ]

(* a slip the properties must notice: the call that finds the window elapsed
   goes on to compare the pin level instead of returning *)
get_signal_ExitReads(b, time_now, is_pressed) ==
    IF b.debouncing /\ ~(UL(time_now - b.last_event) >= debounce_time)
    THEN [ button |-> b, signal |-> NOTHING ]
    ELSE IF b.down
         THEN IF ~is_pressed
              THEN [ button |-> [debouncing |-> TRUE, down |-> FALSE,
                                 last_event |-> time_now],
                     signal |-> RELEASED ]
              ELSE [ button |-> [b EXCEPT !.debouncing = FALSE],
                     signal |-> NOTHING ]
         ELSE IF is_pressed
              THEN [ button |-> [debouncing |-> TRUE, down |-> TRUE,
                                 last_event |-> time_now],
                     signal |-> PRESSED ]
              ELSE [ button |-> [b EXCEPT !.debouncing = FALSE],
                     signal |-> NOTHING ]

(* a slip the properties must notice: the cooldown test compares the times
   without the wrapping subtraction *)
get_signal_NoWrap(b, time_now, is_pressed) ==
    IF b.debouncing
    THEN [ button |-> [b EXCEPT !.debouncing =
                            ~(time_now >= b.last_event + debounce_time)],
           signal |-> NOTHING ]
    ELSE IF b.down
         THEN IF ~is_pressed
              THEN [ button |-> [debouncing |-> TRUE, down |-> FALSE,
                                 last_event |-> time_now],
                     signal |-> RELEASED ]
              ELSE [ button |-> b, signal |-> NOTHING ]
         ELSE IF is_pressed
              THEN [ button |-> [debouncing |-> TRUE, down |-> TRUE,
                                 last_event |-> time_now],
                     signal |-> PRESSED ]
              ELSE [ button |-> b, signal |-> NOTHING ]

(* get_signal: is_pressed is the level !digitalRead(pin) would return; the
   result is the button afterwards and the signal returned *)
get_signal(b, time_now, is_pressed) ==
    IF b.debouncing
    THEN [ button |-> [b EXCEPT !.debouncing =
                            ~(UL(time_now - b.last_event) >= debounce_time)],
           signal |-> NOTHING ]
    ELSE IF b.down
         THEN IF ~is_pressed
              THEN [ button |-> [debouncing |-> TRUE, down |-> FALSE,
                                 last_event |-> time_now],
                     signal |-> RELEASED ]
              ELSE [ button |-> b, signal |-> NOTHING ]
         ELSE IF is_pressed
              THEN [ button |-> [debouncing |-> TRUE, down |-> TRUE,
                                 last_event |-> time_now],
                     signal |-> PRESSED ]
              ELSE [ button |-> b, signal |-> NOTHING ]

-----------------------------------------------------------------------------
(* class Timer *)
Timer_init(init_time, init_delay) == [delay |-> init_delay, last_event |-> init_time]

(* a slip the properties must notice: the timer is re-armed at the poll time *)
should_signal_RearmNow(t, time_now) ==
    IF UL(time_now - t.last_event) >= t.delay
    THEN [ timer |-> [t EXCEPT !.last_event = time_now], fired |-> TRUE ]
    ELSE [ timer |-> t, fired |-> FALSE ]

(* should_signal: the timer afterwards and the value returned *)
should_signal(t, time_now) ==
    IF UL(time_now - t.last_event) >= t.delay
    THEN [ timer |-> [t EXCEPT !.last_event = UL(t.last_event + t.delay)],
           fired |-> TRUE ]
    ELSE [ timer |-> t, fired |-> FALSE ]

reset_last_event_time(t, time_now) == [t EXCEPT !.last_event = time_now]

-----------------------------------------------------------------------------
(* class Display; buffer cells hold character codes *)
Char0 == 48
CharBlank == 32
CharD == 100

animation_start_frame == 128
animation_end_frame == 4
display_digits == 4
dice_type_digits == 2
dice_amount_digits == 1
multiplex_delay == 1
animation_delay == 50

(* a slip the properties must notice: the loop does not stop when the number
   is used up *)
RECURSIVE write_next_number_ZeroPads(_, _, _, _)
write_next_number_ZeroPads(buf, number, index, digit_limit) ==
    IF digit_limit <= 0
    THEN [buffer |-> buf, index |-> index]
    ELSE write_next_number_ZeroPads([buf EXCEPT ![index] = CRem(number, 10) + Char0],
                                    CDiv(number, 10), index - 1, digit_limit - 1)

(* write_next_number: writes at most digit_limit digits of number from cell
   index leftwards; the result is the buffer and the index afterwards *)
RECURSIVE write_next_number(_, _, _, _)
write_next_number(buf, number, index, digit_limit) ==
    IF digit_limit <= 0
    THEN [buffer |-> buf, index |-> index]
    ELSE LET written == [buf EXCEPT ![index] = CRem(number, 10) + Char0]
             rest == CDiv(number, 10)
         IN  IF rest < 1
             THEN [buffer |-> written, index |-> index - 1]
             ELSE write_next_number(written, rest, index - 1, digit_limit - 1)

(* erase_others: blanks the cells index, index-1, ..., 0 *)
erase_others(buf, index) ==
    [i \in DOMAIN buf |-> IF i <= index THEN CharBlank ELSE buf[i]]

Display_init(d, init_time) ==
    [d EXCEPT !.multiplex_timer = Timer_init(init_time, multiplex_delay),
              !.animation_timer = Timer_init(init_time, animation_delay),
              !.current_animation_frame = animation_start_frame]

update_active_index(d, time_now) ==
    LET r == should_signal(d.multiplex_timer, time_now)
    IN  [d EXCEPT !.multiplex_timer = r.timer,
                  !.current_active_index =
                      IF r.fired THEN (d.current_active_index + 1) % display_digits
                      ELSE d.current_active_index]

(* a slip the properties must notice: the frame is reset when it reaches the
   floor, not when it drops below it *)
next_animation_FloorExclusive(d) ==
    LET shifted == d.current_animation_frame \div 2
    IN  [d EXCEPT !.current_animation_frame =
            IF shifted <= animation_end_frame THEN animation_start_frame ELSE shifted]

next_animation(d) ==
    LET shifted == d.current_animation_frame \div 2
    IN  [d EXCEPT !.current_animation_frame =
            IF shifted < animation_end_frame THEN animation_start_frame ELSE shifted]

(* output_char: the two bytes shifted out, most significant bit first.  The
   glyph byte is named by the character it draws: 'd', a digit, or blank for
   every other character *)
output_char(ch, pos) ==
    [ order |-> "MSBFIRST",
      data |-> IF ch = CharD THEN CharD
               ELSE IF ch >= Char0 /\ ch <= Char0 + 9 THEN ch
               ELSE CharBlank,
      select |-> (2 ^ pos) % 256 ]

(* output_animation_frame: ~current_animation_frame, then the position byte,
   least significant bit first *)
output_animation_frame(d) ==
    [ order |-> "LSBFIRST",
      data |-> 255 - d.current_animation_frame,
      select |-> (2 ^ (d.current_active_index + 4)) % 256 ]

(* the hardware write multiplex() ends with, on the display it leaves *)
multiplex_output(d) ==
    output_char(d.display_buffer[d.current_active_index], d.current_active_index)

(* a slip the properties must notice: the position equal to the bound is let
   through *)
multiplex_animation_OffByOne(d, time_now, max_digits_amount) ==
    LET u == update_active_index(d, time_now)
    IN  [u EXCEPT !.current_active_index =
            IF u.current_active_index > max_digits_amount
            THEN 0 ELSE u.current_active_index]

multiplex_animation(d, time_now, max_digits_amount) ==
    LET u == update_active_index(d, time_now)
    IN  [u EXCEPT !.current_active_index =
            IF u.current_active_index >= max_digits_amount
            THEN 0 ELSE u.current_active_index]

multiplex(d, time_now) == update_active_index(d, time_now)

write_number(d, number) ==
    LET w == write_next_number(d.display_buffer, number, display_digits - 1,
                               display_digits)
    IN  [d EXCEPT !.display_buffer = erase_others(w.buffer, w.index)]

(* a slip the properties must notice: the cells left of the amount keep what
   they held *)
write_config_string_NoErase(d, amount, type) ==
    LET t == write_next_number(d.display_buffer, type, display_digits - 1,
                               dice_type_digits)
        withD == [t.buffer EXCEPT ![t.index] = CharD]
        a == write_next_number(withD, amount, t.index - 1, dice_amount_digits)
    IN  [d EXCEPT !.display_buffer = a.buffer]

write_config_string(d, amount, type) ==
    LET t == write_next_number(d.display_buffer, type, display_digits - 1,
                               dice_type_digits)
        withD == [t.buffer EXCEPT ![t.index] = CharD]
        a == write_next_number(withD, amount, t.index - 1, dice_amount_digits)
    IN  [d EXCEPT !.display_buffer = erase_others(a.buffer, a.index)]

prepare_animation(d, time_now) ==
    [d EXCEPT !.current_animation_frame = animation_start_frame,
              !.animation_timer = reset_last_event_time(d.animation_timer, time_now)]

should_animate(d, time_now) == should_signal(d.animation_timer, time_now)

(* the Display object before init(): a global, so zero-initialised *)
Display_zero ==
    [ multiplex_timer |-> [delay |-> 0, last_event |-> 0],
      animation_timer |-> [delay |-> 0, last_event |-> 0],
      current_animation_frame |-> 0,
      current_active_index |-> 0,
      display_buffer |-> [i \in 0..(display_digits - 1) |-> 0] ]

init_display(time_now, d) ==
    write_config_string(Display_init(Display_zero, time_now),
                        get_dice_amount(d), get_dice_type(d))


-----------------------------------------------------------------------------
(* loop(): the controller.  The switch works on the record p of the objects
   it changes: state, dice, disp, and the operations performed so far *)

(* case IDLE, first if: IDLE -> GENERATING *)
IdleStartRoll(p, time_now) ==
    [p EXCEPT !.dice = start_roll(p.dice, time_now),
              !.disp = next_animation(prepare_animation(p.disp, time_now)),
              !.state = GENERATING,
              !.calls = p.calls \o << "start_roll", "prepare_animation",
                                      "next_animation" >>]

(* a slip the properties must notice: entering Config already advances the type *)
IdleEnterConfig_Advancing(p) ==
    [p EXCEPT !.dice = next_dice_type(p.dice),
              !.disp = write_config_string(p.disp, get_dice_amount(p.dice),
                                           get_dice_type(p.dice)),
              !.state = CONFIG,
              !.calls = p.calls \o << "write_config_string" >>]

(* case IDLE, second if: IDLE -> CONFIG *)
IdleEnterConfig(p) ==
    [p EXCEPT !.disp = write_config_string(p.disp, get_dice_amount(p.dice),
                                           get_dice_type(p.dice)),
              !.state = CONFIG,
              !.calls = p.calls \o << "write_config_string" >>]

(* a slip the properties must notice: the roll starts on the release of the
   roll button *)
IdleCase_RollOnRelease(p, rs, ts, as, time_now) ==
    LET afterRoll ==
            IF rs = RELEASED \/ ~has_roll_in_memory(p.dice)
            THEN IdleStartRoll(p, time_now) ELSE p
    IN  IF ts = PRESSED \/ as = PRESSED
        THEN IdleEnterConfig(afterRoll) ELSE afterRoll

(* case IDLE: two independent if statements, executed in sequence *)
IdleCase(p, rs, ts, as, time_now) ==
    LET afterRoll ==
            IF rs = PRESSED \/ ~has_roll_in_memory(p.dice)
            THEN IdleStartRoll(p, time_now) ELSE p
    IN  IF ts = PRESSED \/ as = PRESSED
        THEN IdleEnterConfig(afterRoll) ELSE afterRoll

(* a slip the properties must notice: the config string is written before the
   type is advanced *)
ConfigChangeType_ShowsOld(p) ==
    LET d == next_dice_type(reset_roll_memory(p.dice))
    IN  [p EXCEPT !.dice = d,
                  !.disp = write_config_string(p.disp, get_dice_amount(p.dice),
                                               get_dice_type(p.dice)),
                  !.calls = p.calls \o << "reset_roll_memory", "next_dice_type",
                                          "write_config_string" >>]

(* case CONFIG, first if: change dice type *)
ConfigChangeType(p) ==
    LET d == next_dice_type(reset_roll_memory(p.dice))
    IN  [p EXCEPT !.dice = d,
                  !.disp = write_config_string(p.disp, get_dice_amount(d),
                                               get_dice_type(d)),
                  !.calls = p.calls \o << "reset_roll_memory", "next_dice_type",
                                          "write_config_string" >>]

(* a slip the properties must notice: the amount change keeps the old result *)
ConfigChangeAmount_KeepsResult(p) ==
    LET d == next_dice_amount(p.dice)
    IN  [p EXCEPT !.dice = d,
                  !.disp = write_config_string(p.disp, get_dice_amount(d),
                                               get_dice_type(d)),
                  !.calls = p.calls \o << "next_dice_amount", "write_config_string" >>]

(* case CONFIG, second if: change dice amount *)
ConfigChangeAmount(p) ==
    LET d == next_dice_amount(reset_roll_memory(p.dice))
    IN  [p EXCEPT !.dice = d,
                  !.disp = write_config_string(p.disp, get_dice_amount(d),
                                               get_dice_type(d)),
                  !.calls = p.calls \o << "reset_roll_memory", "next_dice_amount",
                                          "write_config_string" >>]

(* case CONFIG, third if: CONFIG -> IDLE *)
ConfigShowRoll(p) ==
    [p EXCEPT !.disp = write_number(p.disp, get_last_roll(p.dice)),
              !.state = IDLE,
              !.calls = p.calls \o << "write_number" >>]

(* case CONFIG: three independent if statements, executed in sequence *)
ConfigCase(p, rs, ts, as) ==
    LET afterType == IF ts = PRESSED THEN ConfigChangeType(p) ELSE p
        afterAmount == IF as = PRESSED THEN ConfigChangeAmount(afterType)
                       ELSE afterType
    IN  IF rs = PRESSED THEN ConfigShowRoll(afterAmount) ELSE afterAmount

(* a slip the properties must notice: the result shown is read before the roll *)
GeneratingRelease_ShowsOld(p, time_now, draws) ==
    [p EXCEPT !.dice = finish_roll(p.dice, time_now, draws),
              !.disp = write_number(p.disp, get_last_roll(p.dice)),
              !.state = IDLE,
              !.calls = p.calls \o << "finish_roll", "write_number" >>]

(* case GENERATING, if: GENERATING -> IDLE *)
GeneratingRelease(p, time_now, draws) ==
    LET d == finish_roll(p.dice, time_now, draws)
    IN  [p EXCEPT !.dice = d,
                  !.disp = write_number(p.disp, get_last_roll(d)),
                  !.state = IDLE,
                  !.calls = p.calls \o << "finish_roll", "write_number" >>]

(* case GENERATING, else: the roll is being generated *)
GeneratingAnimate(p, time_now) ==
    LET r == should_animate(p.disp, time_now)
        polled == [p.disp EXCEPT !.animation_timer = r.timer]
    IN  IF r.fired
        THEN [p EXCEPT !.disp = next_animation(polled),
                       !.calls = p.calls \o << "should_animate", "next_animation" >>]
        ELSE [p EXCEPT !.disp = polled,
                       !.calls = p.calls \o << "should_animate" >>]

(* case GENERATING: if / else *)
GeneratingCase(p, rs, time_now, draws) ==
    IF rs = RELEASED THEN GeneratingRelease(p, time_now, draws)
    ELSE GeneratingAnimate(p, time_now)

(* a slip the properties must notice: the text output is not in an else
   branch, so a tick in Generating makes both outputs *)
ServiceDisplay_Both(p, time_now) ==
    LET q == IF p.state = GENERATING
             THEN LET d == multiplex_animation(p.disp, time_now,
                                               get_max_digits_amount(p.dice))
                  IN  [p EXCEPT !.disp = d,
                                !.shown = Append(p.shown, output_animation_frame(d)),
                                !.calls = p.calls \o << "multiplex_animation" >>]
             ELSE p
         d == multiplex(q.disp, time_now)
    IN  [q EXCEPT !.disp = d,
                  !.shown = Append(q.shown, multiplex_output(d)),
                  !.calls = q.calls \o << "multiplex" >>]

(* the display service after the switch *)
ServiceDisplay(p, time_now) ==
    IF p.state = GENERATING
    THEN LET d == multiplex_animation(p.disp, time_now,
                                      get_max_digits_amount(p.dice))
         IN  [p EXCEPT !.disp = d,
                       !.shown = Append(p.shown, output_animation_frame(d)),
                       !.calls = p.calls \o << "multiplex_animation" >>]
    ELSE LET d == multiplex(p.disp, time_now)
         IN  [p EXCEPT !.disp = d,
                       !.shown = Append(p.shown, multiplex_output(d)),
                       !.calls = p.calls \o << "multiplex" >>]

(* the latest n values of a history *)
Latest(h, n) == IF Len(h) > n THEN SubSeq(h, Len(h) - n + 1, Len(h)) ELSE h

(* one pass of loop(): time_now is what millis() returns, rollPin, typePin and
   amountPin are what is_pressed() returns for each button *)
Loop(time_now, rollPin, typePin, amountPin) ==
    LET r == get_signal(roll_button, time_now, rollPin)
        t == get_signal(type_button, time_now, typePin)
        a == get_signal(amount_button, time_now, amountPin)
        p0 == [state |-> current_state, dice |-> dice, disp |-> disp,
               calls |-> << >>, shown |-> << >>]
    IN  \E draws \in (IF current_state = GENERATING /\ r.signal = RELEASED
                      THEN DrawSeqs(dice) ELSE {<< >>}) :
          LET p1 == CASE current_state = IDLE ->
                           IdleCase(p0, r.signal, t.signal, a.signal, time_now)
                      [] current_state = CONFIG ->
                           ConfigCase(p0, r.signal, t.signal, a.signal)
                      [] current_state = GENERATING ->
                           GeneratingCase(p0, r.signal, time_now, draws)
              p2 == ServiceDisplay(p1, time_now)
          IN  /\ millis' = time_now
              /\ roll_button' = r.button
              /\ type_button' = t.button
              /\ amount_button' = a.button
              /\ roll_signal' = r.signal
              /\ type_signal' = t.signal
              /\ amount_signal' = a.signal
              /\ current_state' = p2.state
              /\ dice' = p2.dice
              /\ disp' = p2.disp
              /\ calls' = p2.calls
              /\ shown' = p2.shown
              /\ before' = [state |-> current_state, dice |-> dice]
              /\ type_history' =
                    IF p2.dice.current_type_index # dice.current_type_index
                    THEN Latest(Append(type_history, p2.dice.current_type_index),
                                dice_types_length + 1)
                    ELSE type_history
              /\ amount_history' =
                    IF p2.dice.current_dice_amount # dice.current_dice_amount
                    THEN Latest(Append(amount_history, p2.dice.current_dice_amount),
                                max_dice_amount + 1)
                    ELSE amount_history

(* setup(), with millis() returning time_now *)
Setup(time_now) ==
    /\ millis = time_now
    /\ current_state = start_state
    /\ roll_button = Button_init
    /\ amount_button = Button_init
    /\ type_button = Button_init
    /\ dice = Dice_init
    /\ disp = init_display(time_now, Dice_init)
    /\ roll_signal = NOTHING
    /\ type_signal = NOTHING
    /\ amount_signal = NOTHING
    /\ calls = << >>
    /\ before = [state |-> start_state, dice |-> Dice_init]
    /\ type_history = << Dice_init.current_type_index >>
    /\ amount_history = << Dice_init.current_dice_amount >>
    /\ ticks = 0
    /\ clock = time_now
    /\ probe = [ armed |-> time_now,   \* clock when the animation timer was armed
                 fires |-> 0,          \* true results of the animation timer since
                 mfires |-> 0,         \* true results of the multiplex timer
                 fired |-> FALSE,      \* result of the latest timer poll
                 stamp |-> 0,          \* clock at the latest edge of the roll button
                 cooling |-> FALSE,    \* the latest button poll began in cooldown
                 level |-> FALSE,      \* pin level at the latest button poll
                 changed_at |-> -1,    \* clock of the poll that met the latest change of level
                 fresh |-> TRUE,       \* down agreed with the level before its latest change
                 edges |-> 0,          \* edge signals since the latest change of level
                 last_edge |-> NOTHING,  \* the latest edge signal, NOTHING for none yet
                 args |-> << start_dice_amount,    \* arguments of the latest write
                             DiceTypeAt(start_dice_type_index) >>,  \* to the buffer
                 frames |-> << animation_start_frame >> ]  \* frames since prepare_animation
    /\ shown = << >>

-----------------------------------------------------------------------------
(* The controller: loop() is run MaxTicks times after setup(), PollPeriod ms
   apart (two polls per animation interval, each longer than the debounce
   window), with every combination of pin levels at every poll *)
MaxTicks == 7
PollPeriod == animation_delay \div 2

Init == Setup(0)

Tick ==
    /\ ticks < MaxTicks
    /\ ticks' = ticks + 1
    /\ clock' = clock + PollPeriod
    /\ UNCHANGED probe
    /\ \E rollPin, typePin, amountPin \in BOOLEAN :
          Loop(UL(millis + PollPeriod), rollPin, typePin, amountPin)

Next == Tick

Spec == Init /\ [][Next]_vars

-----------------------------------------------------------------------------
(* The dice engine on its own: the operations loop() performs on the Dice
   object, in any order and any number of times, from the object init() leaves *)
NotDice == << current_state, roll_button, type_button, amount_button, disp,
              millis, roll_signal, type_signal, amount_signal, before, ticks,
              clock, probe, shown >>

(* loop(), case CONFIG: reset_roll_memory(); next_dice_type() *)
DiceChangeType ==
    /\ dice' = next_dice_type(reset_roll_memory(dice))
    /\ type_history' = Latest(Append(type_history, dice'.current_type_index),
                              dice_types_length + 1)
    /\ calls' = << "reset_roll_memory", "next_dice_type" >>
    /\ UNCHANGED << NotDice, amount_history >>

(* loop(), case CONFIG: reset_roll_memory(); next_dice_amount() *)
DiceChangeAmount ==
    /\ dice' = next_dice_amount(reset_roll_memory(dice))
    /\ amount_history' = Latest(Append(amount_history, dice'.current_dice_amount),
                                max_dice_amount + 1)
    /\ calls' = << "reset_roll_memory", "next_dice_amount" >>
    /\ UNCHANGED << NotDice, type_history >>

(* loop(), case IDLE: start_roll(time_now) *)
DiceStartRoll ==
    /\ dice' = start_roll(dice, millis)
    /\ calls' = << "start_roll" >>
    /\ UNCHANGED << NotDice, type_history, amount_history >>

(* loop(), case GENERATING: finish_roll(time_now), for every outcome of the draws *)
DiceFinishRoll ==
    /\ \E draws \in DrawSeqs(dice) : dice' = finish_roll(dice, millis, draws)
    /\ calls' = << "finish_roll" >>
    /\ UNCHANGED << NotDice, type_history, amount_history >>

NextDice == DiceChangeType \/ DiceChangeAmount \/ DiceStartRoll \/ DiceFinishRoll

SpecDice == Init /\ [][NextDice]_vars

-----------------------------------------------------------------------------
(* The timers and the roll button on their own, polled at times that run over
   the overflow of the counter: each poll happens a gap after the previous one *)
MaxClock == 110
PollGaps == {0, 1, 3}

NotPolled == << current_state, dice, type_button, amount_button, type_signal,
                amount_signal, before, type_history, amount_history, ticks >>

(* Display::should_animate(millis()) *)
PollAnimation(gap) ==
    /\ clock + gap <= MaxClock
    /\ clock' = clock + gap
    /\ millis' = UL(clock')
    /\ LET r == should_animate(disp, millis')
       IN  /\ disp' = [disp EXCEPT !.animation_timer = r.timer]
           /\ probe' = [probe EXCEPT !.fires = IF r.fired THEN @ + 1 ELSE @,
                                     !.fired = r.fired]
    /\ calls' = << "should_animate" >>
    /\ UNCHANGED << NotPolled, roll_button, roll_signal, shown >>

(* Display::multiplex(millis()) *)
PollMultiplex(gap) ==
    /\ clock + gap <= MaxClock
    /\ clock' = clock + gap
    /\ millis' = UL(clock')
    /\ disp' = multiplex(disp, millis')
    /\ LET r == should_signal(disp.multiplex_timer, millis')
       IN  probe' = [probe EXCEPT !.mfires = IF r.fired THEN @ + 1 ELSE @,
                                  !.fired = r.fired]
    /\ calls' = << "multiplex" >>
    /\ shown' = << multiplex_output(disp') >>
    /\ UNCHANGED << NotPolled, roll_button, roll_signal >>

(* roll_button.get_signal(millis()) with the pin level is_pressed *)
PollRollButton(gap, is_pressed) ==
    /\ clock + gap <= MaxClock
    /\ clock' = clock + gap
    /\ millis' = UL(clock')
    /\ LET r == get_signal(roll_button, millis', is_pressed)
       IN  /\ roll_button' = r.button
           /\ roll_signal' = r.signal
           /\ probe' = [probe EXCEPT
                           !.stamp = IF r.signal # NOTHING THEN clock' ELSE @,
                           !.cooling = roll_button.debouncing]
    /\ calls' = << "get_signal" >>
    /\ UNCHANGED << NotPolled, disp, shown >>

NextTimer == \E gap \in PollGaps : PollAnimation(gap) \/ PollMultiplex(gap)

SpecTimer == Init /\ [][NextTimer]_vars

NextWrap ==
    \E gap \in PollGaps :
        \/ PollAnimation(gap)
        \/ \E is_pressed \in BOOLEAN : PollRollButton(gap, is_pressed)

SpecWrap == Init /\ [][NextWrap]_vars

-----------------------------------------------------------------------------
(* One button on its own: get_signal polled at any of the gaps with any pin
   level at each poll, from the button init() leaves (up, pin released) *)
LargestGap == CHOOSE g \in PollGaps : \A h \in PollGaps : h <= g

(* roll_button.get_signal(millis()) with the pin level is_pressed, keeping the
   history of the levels and of the edge signals *)
SampleRollButton(gap, is_pressed) ==
    /\ clock + gap <= MaxClock
    /\ clock' = clock + gap
    /\ millis' = UL(clock')
    /\ LET r == get_signal(roll_button, millis', is_pressed)
           changed == is_pressed # probe.level
           edge == r.signal # NOTHING
       IN  /\ roll_button' = r.button
           /\ roll_signal' = r.signal
           /\ probe' = [probe EXCEPT
                 !.stamp = IF edge THEN clock' ELSE @,
                 !.cooling = roll_button.debouncing,
                 !.level = is_pressed,
                 !.changed_at = IF changed THEN clock' ELSE @,
                 !.fresh = IF changed THEN roll_button.down = probe.level ELSE @,
                 !.edges = (IF changed THEN 0 ELSE @) + (IF edge THEN 1 ELSE 0),
                 !.last_edge = IF edge THEN r.signal ELSE @]
    /\ calls' = << "get_signal" >>
    /\ UNCHANGED << NotPolled, disp, shown >>

NextButton ==
    \E gap \in PollGaps : \E is_pressed \in BOOLEAN :
        SampleRollButton(gap, is_pressed)

SpecButton == Init /\ [][NextButton]_vars

-----------------------------------------------------------------------------
(* The text buffer on its own: write_number and write_config_string applied
   to the display in any order.  After a config string every number up to
   MaxNumber is written; after a number, the numbers with fewer digits (whose
   leftover cells must be blanked) *)
MaxNumber == 9999

NumbersAfter ==
    IF calls = << "write_number" >>
    THEN {probe.args[1] \div 10, probe.args[1] \div 100, probe.args[1] \div 1000}
    ELSE 0..MaxNumber

NotText == << current_state, dice, roll_button, type_button, amount_button,
              millis, roll_signal, type_signal, amount_signal, before,
              type_history, amount_history, ticks, clock, shown >>

(* disp.write_number(number) *)
TextNumber(number) ==
    /\ disp' = write_number(disp, number)
    /\ probe' = [probe EXCEPT !.args = << number >>]
    /\ calls' = << "write_number" >>
    /\ UNCHANGED NotText

(* disp.write_config_string(amount, type) *)
TextConfig(amount, type) ==
    /\ disp' = write_config_string(disp, amount, type)
    /\ probe' = [probe EXCEPT !.args = << amount, type >>]
    /\ calls' = << "write_config_string" >>
    /\ UNCHANGED NotText

NextText ==
    \/ \E number \in NumbersAfter : TextNumber(number)
    \/ \E amount \in 1..max_dice_amount, i \in 0..(dice_types_length - 1) :
          TextConfig(amount, DiceTypeAt(i))

SpecText == Init /\ [][NextText]_vars

-----------------------------------------------------------------------------
(* The roll animation on its own: the frame as loop() drives it, with the
   counter running freely (modulo 2^TimeBits) *)
NotFrames == << current_state, dice, roll_button, type_button, amount_button,
                roll_signal, type_signal, amount_signal, before, type_history,
                amount_history, ticks, clock, shown >>

(* loop(), case IDLE: prepare_animation(time_now); next_animation() *)
FramesPrepare(gap) ==
    /\ millis' = UL(millis + gap)
    /\ disp' = next_animation(prepare_animation(disp, millis'))
    /\ probe' = [probe EXCEPT !.frames = << animation_start_frame,
                                            disp'.current_animation_frame >>]
    /\ calls' = << "prepare_animation", "next_animation" >>
    /\ UNCHANGED NotFrames

(* loop(), case GENERATING, else: if (should_animate(time_now)) next_animation() *)
FramesAnimate(gap) ==
    /\ millis' = UL(millis + gap)
    /\ LET p == GeneratingAnimate([state |-> GENERATING, dice |-> dice,
                                   disp |-> disp, calls |-> << >>,
                                   shown |-> << >>], millis')
       IN  /\ disp' = p.disp
           /\ calls' = p.calls
           /\ probe' = [probe EXCEPT !.frames =
                 IF should_animate(disp, millis').fired
                 THEN Latest(Append(@, p.disp.current_animation_frame), 7)
                 ELSE @]
    /\ UNCHANGED NotFrames

NextFrames == \E gap \in PollGaps : FramesPrepare(gap) \/ FramesAnimate(gap)

SpecFrames == Init /\ [][NextFrames]_vars

-----------------------------------------------------------------------------
(* The multiplexer on its own: the display service of loop() in its two
   modes, for every configuration of the dice *)
Configurations ==
    { [Dice_init EXCEPT !.current_type_index = i, !.current_dice_amount = a] :
        i \in 0..(dice_types_length - 1), a \in 1..max_dice_amount }

(* the values dice.get_max_digits_amount() has over the configurations *)
MaxDigitsAmounts == { get_max_digits_amount(d) : d \in Configurations }

(* loop(): multiplex_animation(time_now, dice.get_max_digits_amount()) *)
SweepAnimation(gap, max_digits_amount) ==
    /\ millis' = UL(millis + gap)
    /\ disp' = multiplex_animation(disp, millis', max_digits_amount)
    /\ calls' = << "multiplex_animation" >>
    /\ shown' = << output_animation_frame(disp') >>
    /\ probe' = [probe EXCEPT
                    !.args = << max_digits_amount >>,
                    !.fired = should_signal(disp.multiplex_timer, millis').fired]
    /\ UNCHANGED << NotPolled, roll_button, roll_signal, clock >>

(* loop(): multiplex(time_now) *)
SweepText(gap) ==
    /\ millis' = UL(millis + gap)
    /\ LET p == ServiceDisplay([state |-> IDLE, dice |-> dice, disp |-> disp,
                                calls |-> << >>, shown |-> << >>], millis')
       IN  /\ disp' = p.disp
           /\ calls' = p.calls
           /\ shown' = p.shown
    /\ probe' = [probe EXCEPT
                    !.fired = should_signal(disp.multiplex_timer, millis').fired]
    /\ UNCHANGED << NotPolled, roll_button, roll_signal, clock >>

NextSweep ==
    \E gap \in PollGaps :
        \/ \E max_digits_amount \in MaxDigitsAmounts :
              SweepAnimation(gap, max_digits_amount)
        \/ SweepText(gap)

SpecSweep == Init /\ [][NextSweep]_vars

-----------------------------------------------------------------------------
(* helpers of the properties *)
Performed(seq, op) == \E i \in DOMAIN seq : seq[i] = op
TimesPerformed(seq, op) == Cardinality({i \in DOMAIN seq : seq[i] = op})
ConfigBuffer(d) ==
    write_config_string(Display_zero, get_dice_amount(d), get_dice_type(d)).display_buffer
NumberBuffer(n) == write_number(Display_zero, n).display_buffer
NoResult(d) == d.last_roll = clear_memory_value
SameConfig(d, e) ==
    /\ d.current_type_index = e.current_type_index
    /\ d.current_dice_amount = e.current_dice_amount

(* C1 (as stated): every tick that starts in Idle with roll Pressed or with no
   result in memory performs start_roll, prepare_animation and one
   next_animation and ends in Generating, whatever the type and amount
   signals of that tick are.  The code runs the Idle -> Config branch after
   the Idle -> Generating branch, so this fails when type or amount is Pressed
   in the same tick. *)
C1_IdleRollEndsGenerating ==
    [][ (current_state = IDLE
            /\ (roll_signal' = PRESSED \/ NoResult(dice)))
        => /\ TimesPerformed(calls', "start_roll") = 1
           /\ TimesPerformed(calls', "prepare_animation") = 1
           /\ TimesPerformed(calls', "next_animation") = 1
           /\ current_state' = GENERATING ]_vars

(* C2: a tick changes the die type index or the die count only when it starts
   in Config and the matching button signal is Pressed, it advances the
   value by one step of its cycle, and after such a tick no roll result is in
   memory. *)
C2_ConfigChangeClearsResult ==
    [][ /\ (dice'.current_type_index # dice.current_type_index
              => /\ current_state = CONFIG
                 /\ type_signal' = PRESSED
                 /\ dice'.current_type_index =
                       (dice.current_type_index + 1) % dice_types_length
                 /\ NoResult(dice'))
        /\ (dice'.current_dice_amount # dice.current_dice_amount
              => /\ current_state = CONFIG
                 /\ amount_signal' = PRESSED
                 /\ dice'.current_dice_amount =
                       (dice.current_dice_amount % max_dice_amount) + 1
                 /\ NoResult(dice')) ]_vars

(* C2 witness: the latest tick changed the configuration while a result was
   in memory, and the result is gone. *)
C2_Witness ==
    /\ ~NoResult(before.dice)
    /\ ~SameConfig(before.dice, dice)
    /\ NoResult(dice)

(* C3: a tick that starts in Generating ends in Idle exactly when its roll
   signal is Released; in that tick finish_roll runs once, its sum is the
   stored result and is what write_number put in the buffer, and the
   animation frame is not advanced.  Every other tick that starts in
   Generating ends in Generating, whatever the type and amount signals. *)
C3_GeneratingLeavesOnRelease ==
    [][ current_state = GENERATING
        => IF roll_signal' = RELEASED
           THEN /\ current_state' = IDLE
                /\ TimesPerformed(calls', "finish_roll") = 1
                /\ TimesPerformed(calls', "write_number") = 1
                /\ ~NoResult(dice')
                /\ disp'.display_buffer = NumberBuffer(get_last_roll(dice'))
                /\ ~Performed(calls', "next_animation")
                /\ disp'.current_animation_frame = disp.current_animation_frame
           ELSE /\ current_state' = GENERATING
                /\ dice' = dice
                /\ disp'.display_buffer = disp.display_buffer ]_vars

(* C3 witness: the latest tick started in Generating, got roll Released with
   type Pressed in the same tick, and ended in Idle with a result. *)
C3_Witness ==
    /\ before.state = GENERATING
    /\ roll_signal = RELEASED
    /\ type_signal = PRESSED
    /\ current_state = IDLE
    /\ ~NoResult(dice)

(* C4: a tick that starts in Idle with a result in memory, gets no roll
   Pressed and gets type Pressed or amount Pressed ends in Config with the
   config string of the unchanged configuration in the buffer; type index,
   count and stored result are as before. *)
C4_IdleEntersConfigUnchanged ==
    [][ (/\ current_state = IDLE
         /\ ~NoResult(dice)
         /\ roll_signal' # PRESSED
         /\ (type_signal' = PRESSED \/ amount_signal' = PRESSED))
        => /\ current_state' = CONFIG
           /\ dice' = dice
           /\ disp'.display_buffer = ConfigBuffer(dice)
           /\ calls' = << "write_config_string", "multiplex" >> ]_vars

(* C4 witness: the latest tick went from Idle to Config on an amount press
   with a result in memory. *)
C4_Witness ==
    /\ before.state = IDLE
    /\ ~NoResult(before.dice)
    /\ roll_signal # PRESSED
    /\ amount_signal = PRESSED
    /\ current_state = CONFIG
    /\ ~NoResult(dice)

(* C5: the scenario from setup().  From Config with 1 die of 6 faces and no
   result, a tick with amount Pressed (and no other press) ends in Config with
   2 dice of 6 faces; from there a tick with roll Pressed (and no other press)
   ends in Idle with no result; and the tick after that, with no type or
   amount press, ends in Generating although its roll signal is not Pressed. *)
TwoD6NoResult(d) ==
    /\ d.current_dice_amount = 2
    /\ d.current_type_index = start_dice_type_index
    /\ DiceTypeAt(d.current_type_index) = 6
    /\ NoResult(d)

C5_SetupScenario ==
    [][ /\ (/\ current_state = start_state
            /\ dice = Dice_init
            /\ amount_signal' = PRESSED
            /\ roll_signal' # PRESSED
            /\ type_signal' # PRESSED)
           => (current_state' = CONFIG /\ TwoD6NoResult(dice'))
        /\ (/\ current_state = CONFIG
            /\ TwoD6NoResult(dice)
            /\ roll_signal' = PRESSED
            /\ type_signal' # PRESSED
            /\ amount_signal' # PRESSED)
           => (current_state' = IDLE /\ TwoD6NoResult(dice'))
        /\ (/\ current_state = IDLE
            /\ NoResult(dice)
            /\ type_signal' # PRESSED
            /\ amount_signal' # PRESSED)
           => (current_state' = GENERATING /\ roll_signal' # PRESSED) ]_vars

(* C5 witness: three ticks after setup(): amount pressed in the first, roll
   pressed in the second, and the third went from Idle to Generating with 2
   dice of 6 faces and no roll Pressed. *)
C5_Witness ==
    /\ ticks = 3
    /\ amount_button.last_event = PollPeriod
    /\ roll_button.last_event = 2 * PollPeriod
    /\ before.state = IDLE
    /\ TwoD6NoResult(before.dice)
    /\ roll_signal # PRESSED
    /\ current_state = GENERATING

(* C6: in every reachable state the type index is an index of the 7-entry
   face table and the count is in 1..9; in particular no type change leaves
   the table and no amount change gives 0. *)
C6_ConfigInRange ==
    /\ dice_types_length = 7
    /\ dice.current_type_index \in 0..(dice_types_length - 1)
    /\ dice.current_dice_amount \in 1..9
    /\ dice.current_dice_amount <= max_dice_amount

(* C6 witness: both wrap-arounds have happened: the type index went from the
   last table entry to 0 and the count went from 9 to 1. *)
C6_Witness ==
    /\ \E i \in 1..(Len(type_history) - 1) :
          type_history[i] = dice_types_length - 1 /\ type_history[i + 1] = 0
    /\ \E i \in 1..(Len(amount_history) - 1) :
          amount_history[i] = 9 /\ amount_history[i + 1] = 1

(* C7: among the values the type index took over the latest type changes, two
   are equal exactly when 7 changes lie between them; among the values of the
   count, exactly when 9 amount changes lie between them.  So 7 type changes
   (9 amount changes) give back the original value and no smaller positive
   number does. *)
C7_CyclesOfSevenAndNine ==
    /\ \A i, j \in DOMAIN type_history :
          i < j => ((type_history[i] = type_history[j]) <=> (j - i = 7))
    /\ \A i, j \in DOMAIN amount_history :
          i < j => ((amount_history[i] = amount_history[j]) <=> (j - i = 9))

(* C7 witness: 7 type changes and 9 amount changes have been applied, from a
   configuration other than the initial one. *)
C7_Witness ==
    /\ Len(type_history) = 8
    /\ Len(amount_history) = 10
    /\ type_history[1] # start_dice_type_index
    /\ amount_history[1] # start_dice_amount
    /\ type_history[8] = type_history[1]
    /\ amount_history[10] = amount_history[1]

(* C8: right after finish_roll the stored sum is at least the count and at
   most faces * count of the current configuration, so it is not the sentinel
   -1 and has_roll_in_memory() is true. *)
C8_SumWithinBounds ==
    Performed(calls, "finish_roll")
    => /\ dice.last_roll >= dice.current_dice_amount
       /\ dice.last_roll <= DiceTypeAt(dice.current_type_index) * dice.current_dice_amount
       /\ dice.last_roll # -1
       /\ has_roll_in_memory(dice)

(* C8 witness: 9 dice of 100 faces were rolled and all came up 100. *)
C8_Witness ==
    /\ Performed(calls, "finish_roll")
    /\ dice.current_dice_amount = 9
    /\ DiceTypeAt(dice.current_type_index) = 100
    /\ dice.last_roll = 900

(* C9: the timers do not drift.  After every poll, the number of true results
   of a timer since it was armed, times its interval, is at most the time
   that has passed since (no more true results than interval boundaries
   passed), and its deadline stands exactly that many intervals after the
   arming time: the k-th true result belongs to the k-th boundary, also when
   polls were skipped or repeated.  A poll that finds a boundary not yet
   served, less than one counter period late, returns true. *)
C9_TimerNoDrift ==
    [][ /\ probe'.fires * animation_delay <= clock' - probe'.armed
        /\ disp'.animation_timer.last_event =
              (probe'.armed + probe'.fires * animation_delay) % Modulus
        /\ probe'.mfires * multiplex_delay <= clock'
        /\ disp'.multiplex_timer.last_event =
              (probe'.mfires * multiplex_delay) % Modulus
        /\ probe'.fires <= probe.fires + 1
        /\ probe'.mfires <= probe.mfires + 1
        /\ (/\ calls' = << "should_animate" >>
            /\ clock' - (probe.armed + probe.fires * animation_delay)
                  \in animation_delay..(Modulus - 1))
           => (probe'.fired /\ probe'.fires = probe.fires + 1)
        /\ (/\ calls' = << "multiplex" >>
            /\ clock' - probe.mfires * multiplex_delay
                  \in multiplex_delay..(Modulus - 1))
           => (probe'.fired /\ probe'.mfires = probe.mfires + 1) ]_vars

(* C9 witness: the animation timer has just returned true for its second
   boundary at a poll made after that boundary, past the counter overflow,
   while the multiplex timer is several boundaries behind. *)
C9_Witness ==
    /\ calls = << "should_animate" >>
    /\ probe.fired
    /\ probe.fires = 2
    /\ clock > probe.armed + 2 * animation_delay
    /\ clock > Modulus
    /\ probe.mfires + 2 <= clock

(* C10: the time comparisons are those of the wrapping counter.  A poll of the
   timer returns true exactly when (now - last_event) mod 2^TimeBits >= delay,
   and a poll of a button in cooldown ends the cooldown exactly when
   (now - last_event) mod 2^TimeBits >= 5, with the counter values and with
   the true times alike, so also when now is numerically below last_event
   after an overflow; while less than one period has passed this is the true
   elapsed time.  last_event += delay wraps modulo 2^TimeBits. *)
C10_WrappingComparisons ==
    [][ /\ calls' = << "should_animate" >>
           => LET last == disp.animation_timer.last_event
                  elapsed == clock' - (probe.armed + probe.fires * animation_delay)
              IN  /\ probe'.fired <=>
                        ((millis' - last + Modulus) % Modulus >= animation_delay)
                  /\ probe'.fired <=> (elapsed % Modulus >= animation_delay)
                  /\ elapsed < Modulus => (probe'.fired <=> elapsed >= animation_delay)
                  /\ probe'.fired =>
                        disp'.animation_timer.last_event =
                            (last + animation_delay) % Modulus
                  /\ disp'.animation_timer.last_event \in 0..(Modulus - 1)
        /\ (calls' = << "get_signal" >> /\ roll_button.debouncing)
           => LET elapsed == clock' - probe.stamp
              IN  /\ ~roll_button'.debouncing <=>
                        ((millis' - roll_button.last_event + Modulus) % Modulus >= 5)
                  /\ ~roll_button'.debouncing <=> (elapsed % Modulus >= 5)
                  /\ elapsed < Modulus => (~roll_button'.debouncing <=> elapsed >= 5)
                  /\ roll_button'.last_event = roll_button.last_event ]_vars

(* C10 witness: the animation timer has fired for a deadline of 50 at a poll
   whose counter value had wrapped below it, and the roll button, pressed in
   the last 5 ms before the overflow, has left its cooldown after it. *)
C10_Witness ==
    /\ probe.fires = 2
    /\ probe.armed = 0
    /\ clock \in (Modulus + 1)..(2 * Modulus - 1)
    /\ probe.stamp \in (Modulus - debounce_time)..(Modulus - 1)
    /\ roll_button.last_event = probe.stamp
    /\ roll_button.down
    /\ ~roll_button.debouncing

(* C11: debounce idempotence.  After a change of the pin level met by a button
   whose down flag agreed with the level before (as after init() and after
   every transition that was signalled), while the level stays as it is: at
   most one edge signal is returned however many polls follow, it is Pressed
   for a rising and Released for a falling level and the down flag then
   equals the level; the first poll that does not begin in cooldown returns
   it, so it has been returned once the level was held for the debounce
   window plus the largest gap between two polls. *)
C11_DebounceIdempotence ==
    /\ probe.edges <= 1
    /\ (probe.fresh /\ probe.changed_at >= 0)
       => /\ probe.edges = 1
             => /\ probe.last_edge = (IF probe.level THEN PRESSED ELSE RELEASED)
                /\ roll_button.down = probe.level
          /\ ~probe.cooling => probe.edges = 1
          /\ clock - probe.changed_at >= debounce_time + LargestGap
             => probe.edges = 1

(* C11 witness: the pin fell while the button was in the cooldown of its
   press, the level was then held for more than twice the window with polls
   going on, and exactly one Released was returned, after the cooldown. *)
C11_Witness ==
    /\ probe.fresh
    /\ probe.changed_at >= 0
    /\ ~probe.level
    /\ probe.edges = 1
    /\ probe.last_edge = RELEASED
    /\ probe.stamp > probe.changed_at
    /\ clock - probe.changed_at >= 2 * debounce_time + LargestGap
    /\ ~roll_button.debouncing
    /\ ~roll_button.down

(* C15: a call of get_signal that begins in cooldown returns Nothing and
   leaves the down flag and the time stamp alone, whatever the pin level is,
   and it ends the cooldown exactly when at least 5 ms have passed since the
   edge; so an edge signal is never returned less than 5 ms after the edge
   before it, and the first call made 5 ms or more after an edge returns
   Nothing as well. *)
C15_CooldownReturnsNothing ==
    [][ calls' = << "get_signal" >>
        => /\ roll_button.debouncing
              => /\ roll_signal' = NOTHING
                 /\ roll_button'.down = roll_button.down
                 /\ roll_button'.last_event = roll_button.last_event
                 /\ roll_button'.debouncing <=> (clock' - probe.stamp < debounce_time)
           /\ (roll_signal' # NOTHING /\ probe.last_edge # NOTHING)
              => clock' - probe.stamp >= debounce_time
           /\ (probe.last_edge # NOTHING /\ clock - probe.stamp < debounce_time
                  /\ clock' - probe.stamp >= debounce_time)
              => /\ roll_signal' = NOTHING
                 /\ roll_button'.down = roll_button.down ]_vars

(* C15 witness: the latest call began in cooldown, found the window elapsed
   and ended the cooldown, and returned Nothing although the pin level
   differed from the down flag. *)
C15_Witness ==
    /\ calls = << "get_signal" >>
    /\ probe.cooling
    /\ ~roll_button.debouncing
    /\ clock - probe.stamp >= debounce_time
    /\ roll_signal = NOTHING
    /\ probe.level # roll_button.down

(* C19: the edge signals of a button alternate, beginning with Pressed: a
   Pressed is returned only when no edge or a Released was the edge before
   it, a Released only when a Pressed was, and after every call the down
   flag is true exactly when the latest edge signal is Pressed. *)
C19_EdgesAlternate ==
    [][ calls' = << "get_signal" >>
        => /\ roll_signal' = PRESSED => probe.last_edge \in {NOTHING, RELEASED}
           /\ roll_signal' = RELEASED => probe.last_edge = PRESSED
           /\ roll_button'.down <=> (probe'.last_edge = PRESSED)
           /\ roll_button.down <=> (probe.last_edge = PRESSED) ]_vars

(* C19 witness: a Released has just been returned for a pin that fell during
   the cooldown of the Pressed before it, and the down flag is false again. *)
C19_Witness ==
    /\ calls = << "get_signal" >>
    /\ roll_signal = RELEASED
    /\ probe.last_edge = RELEASED
    /\ ~roll_button.down
    /\ roll_button.debouncing
    /\ probe.stamp = clock
    /\ probe.changed_at < clock
    /\ clock > 2 * debounce_time

(* the cell a right-justified decimal number shows k places from the right:
   its digit of weight 10^k, blank where the number has no such digit *)
DecimalCell(n, k) ==
    IF k = 0 \/ n >= 10 ^ k THEN Char0 + ((n \div (10 ^ k)) % 10) ELSE CharBlank

(* the number a buffer of digits and leading blanks reads as *)
RECURSIVE ReadCells(_, _)
ReadCells(buf, i) ==
    IF i < 0 \/ buf[i] = CharBlank THEN 0
    ELSE (buf[i] - Char0) + 10 * ReadCells(buf, i - 1)

(* C12: right after write_number(n) with n in 0..9999 the buffer holds the
   decimal digits of n right-justified, least significant digit in cell 3,
   every cell left of the most significant digit blank, no leading zero (0 is
   the single digit '0'), and reads back as n. *)
C12_WriteNumberRightJustified ==
    (calls = << "write_number" >> /\ probe.args[1] \in 0..9999)
    => /\ \A i \in 0..3 : disp.display_buffer[i] = DecimalCell(probe.args[1], 3 - i)
       /\ \A i \in 0..3 : disp.display_buffer[i] \in (Char0..(Char0 + 9)) \cup {CharBlank}
       /\ \A i \in 0..2 : disp.display_buffer[i] = Char0
                              => \E j \in 0..(i - 1) : disp.display_buffer[j] # CharBlank
       /\ \A i \in 0..2 : disp.display_buffer[i] # CharBlank
                              => disp.display_buffer[i + 1] # CharBlank
       /\ disp.display_buffer[3] # CharBlank
       /\ ReadCells(disp.display_buffer, 3) = probe.args[1]

(* C12 witness: 7 has been written over a full buffer (a config string or a
   longer number) and shows as three blanks and '7'. *)
C12_Witness ==
    /\ calls = << "write_number" >>
    /\ probe.args = << 7 >>
    /\ disp.display_buffer = [i \in 0..3 |-> IF i = 3 THEN Char0 + 7 ELSE CharBlank]

(* C13 (as stated): right after write_config_string(amount, type) the 'd' is
   in one fixed cell for every type, with the two cells right of it reserved
   for the type and the cell left of it holding the amount; in a buffer of 4
   cells that is cell 1, as in "3d20".  The code puts the 'd' directly left
   of the digits it wrote, so the one-digit types 4, 6 and 8 have it in
   cell 2. *)
C13_MarkerAtFixedCell ==
    calls = << "write_config_string" >>
    => /\ disp.display_buffer[1] = CharD
       /\ disp.display_buffer[0] = Char0 + probe.args[1]
       /\ disp.display_buffer[3] = Char0 + (probe.args[2] % 10)
       /\ disp.display_buffer[2] \in {Char0 + ((probe.args[2] \div 10) % 10), CharBlank}

(* C13 (amended): right after write_config_string(amount, type), amount in
   1..9 and type in the face table: the type's digits are right-justified, at
   most two of them (100 shows its low digits "00"); the 'd' is in the cell
   directly left of them, cell 2 for the types 4, 6, 8 and cell 1 for 10, 12,
   20, 100; the amount is in the cell left of the 'd'; what is left, cell 0
   for the one-digit types, is blank. *)
C13_ConfigStringLayout ==
    calls = << "write_config_string" >>
    => LET buf == disp.display_buffer
       IN  IF probe.args[2] < 10
           THEN /\ buf[3] = Char0 + probe.args[2]
                /\ buf[2] = CharD
                /\ buf[1] = Char0 + probe.args[1]
                /\ buf[0] = CharBlank
           ELSE /\ buf[3] = Char0 + (probe.args[2] % 10)
                /\ buf[2] = Char0 + ((probe.args[2] \div 10) % 10)
                /\ buf[1] = CharD
                /\ buf[0] = Char0 + probe.args[1]

(* C13 witness: " 1d4" has been written: the 'd' is in cell 2 and cell 0 is
   blank. *)
C13_Witness ==
    /\ calls = << "write_config_string" >>
    /\ probe.args[2] = 4
    /\ probe.args[1] = 1
    /\ disp.display_buffer[0] = CharBlank
    /\ disp.display_buffer[2] = CharD

(* the bytes that select exactly one of the 4 positions *)
TextSelects == {1, 2, 4, 8}
AnimationSelects == {16, 32, 64, 128}

(* C14: every tick makes exactly one display output, as the last operation of
   the tick, for exactly one position: the animation output if the state the
   switch left is Generating and the text output otherwise, never both. *)
C14_OneOutputPerTick ==
    ticks > 0
    => /\ Len(shown) = 1
       /\ TimesPerformed(calls, "multiplex_animation")
             + TimesPerformed(calls, "multiplex") = 1
       /\ calls[Len(calls)] \in {"multiplex_animation", "multiplex"}
       /\ Performed(calls, "multiplex_animation") <=> (current_state = GENERATING)
       /\ Performed(calls, "multiplex") <=> (current_state # GENERATING)
       /\ IF current_state = GENERATING
          THEN /\ shown[1].order = "LSBFIRST"
               /\ shown[1].select \in AnimationSelects
               /\ shown[1].select = 2 ^ (disp.current_active_index + 4)
               /\ shown[1].data = 255 - disp.current_animation_frame
          ELSE /\ shown[1].order = "MSBFIRST"
               /\ shown[1].select \in TextSelects
               /\ shown[1].select = 2 ^ disp.current_active_index

(* C14 witness: a tick that began in Idle started a roll and then entered
   Config: its one output is the text output. *)
C14_Witness ==
    /\ before.state = IDLE
    /\ Performed(calls, "start_roll")
    /\ current_state = CONFIG
    /\ calls[Len(calls)] = "multiplex"
    /\ Len(shown) = 1
    /\ shown[1].order = "MSBFIRST"

(* C18: whenever a tick ends in Generating the down flag of the roll button
   is true.  Generating is entered from Idle only, in a tick whose roll signal
   is Pressed, or in the tick after a roll Pressed in Config, which the roll
   button begins in cooldown and so answers with Nothing. *)
C18_GeneratingHoldsRollDown ==
    [][ /\ current_state' = GENERATING => roll_button'.down
        /\ (current_state # GENERATING /\ current_state' = GENERATING)
           => /\ current_state = IDLE
              /\ \/ roll_signal' = PRESSED
                 \/ /\ before.state = CONFIG
                    /\ roll_signal = PRESSED
                    /\ roll_button.debouncing
                    /\ roll_signal' = NOTHING ]_vars

(* C18 witness: Generating was entered in the tick after a roll Pressed in
   Config, with no roll signal in the entering tick, and the roll button is
   down. *)
C18_Witness ==
    /\ current_state = GENERATING
    /\ before.state = IDLE
    /\ NoResult(before.dice)
    /\ roll_signal = NOTHING
    /\ roll_button.down

(* C20: at the end of every tick (and after setup) the buffer matches the
   state: in Config it is the config string of the current count and faces;
   in Idle with a result in memory it is the number stored, which lies
   between count and faces * count of the current configuration. *)
C20_BufferMatchesState ==
    /\ current_state = CONFIG => disp.display_buffer = ConfigBuffer(dice)
    /\ (current_state = IDLE /\ ~NoResult(dice))
       => /\ disp.display_buffer = NumberBuffer(dice.last_roll)
          /\ dice.last_roll >= dice.current_dice_amount
          /\ dice.last_roll <=
                DiceTypeAt(dice.current_type_index) * dice.current_dice_amount

(* C20 witness: a result was rolled, Config was visited without a change, and
   the tick that went back to Idle shows the result again. *)
C20_Witness ==
    /\ before.state = CONFIG
    /\ ~NoResult(before.dice)
    /\ current_state = IDLE
    /\ Performed(calls, "write_number")
    /\ disp.display_buffer = NumberBuffer(dice.last_roll)

(* C16: the animation frame is one of 0x80, 0x40, 0x20, 0x10, 0x08, 0x04 in
   every state; each advance halves it, and 0x04 is followed by 0x80; among
   the frames of consecutive advances two are equal exactly when 6 advances
   lie between them; and the frame is 0x40 after prepare_animation and the
   one advance of the tick that enters Generating. *)
C16_FrameCycle ==
    /\ disp.current_animation_frame \in {128, 64, 32, 16, 8, 4}
    /\ probe.frames[Len(probe.frames)] = disp.current_animation_frame
    /\ \A i \in 1..(Len(probe.frames) - 1) :
          probe.frames[i + 1] =
              IF probe.frames[i] = 4 THEN 128 ELSE probe.frames[i] \div 2
    /\ \A i, j \in DOMAIN probe.frames :
          i < j => ((probe.frames[i] = probe.frames[j]) <=> (j - i = 6))
    /\ calls = << "prepare_animation", "next_animation" >>
          => disp.current_animation_frame = 64

(* C16 witness: the animation timer has just fired and the advance took the
   frame from 0x04 back to 0x80, six advances after it was 0x80. *)
C16_Witness ==
    /\ calls = << "should_animate", "next_animation" >>
    /\ Len(probe.frames) = 7
    /\ probe.frames[1] = 128
    /\ probe.frames[6] = 4
    /\ disp.current_animation_frame = 128

(* whether n has exactly k decimal digits *)
HasDigits(n, k) == 10 ^ (k - 1) <= n /\ n < 10 ^ k

(* get_max_digits_amount() is the number of decimal digits of faces * count,
   and is 1, 2 or 3, for every configuration *)
DigitsOfEveryConfiguration ==
    \A d \in Configurations :
        /\ get_max_digits_amount(d) \in 1..3
        /\ HasDigits(DiceTypeAt(d.current_type_index) * d.current_dice_amount,
                     get_max_digits_amount(d))

(* C17: the bound of the animation sweep is the number of decimal digits of
   faces * count, 1 to 3 over the configurations; after every animation
   output the active position is below the bound: it is the position the
   multiplex timer gave (the old one, or the next one round-robin) when that
   is below the bound, and 0 otherwise.  After every text output the position
   is in 0..3 and is the old one or the next one round-robin. *)
C17_SweepWithinDigits ==
    [][ /\ DigitsOfEveryConfiguration
        /\ MaxDigitsAmounts = 1..3
        /\ calls' = << "multiplex_animation" >>
           => LET given == IF probe'.fired
                           THEN (disp.current_active_index + 1) % 4
                           ELSE disp.current_active_index
              IN  /\ disp'.current_active_index \in 0..(probe'.args[1] - 1)
                  /\ disp'.current_active_index =
                        IF given >= probe'.args[1] THEN 0 ELSE given
                  /\ shown'[1].select = 2 ^ (disp'.current_active_index + 4)
        /\ calls' = << "multiplex" >>
           => /\ disp'.current_active_index \in 0..3
              /\ disp'.current_active_index \in
                    {disp.current_active_index, (disp.current_active_index + 1) % 4}
              /\ shown'[1].select = 2 ^ disp'.current_active_index ]_vars

(* C17 witness: an animation output for a configuration of two digits took
   place when the multiplex timer had moved the position on, and the position
   is 0: it was forced there from 2 or 3. *)
C17_Witness ==
    /\ calls = << "multiplex_animation" >>
    /\ probe.args = << 2 >>
    /\ probe.fired
    /\ disp.current_active_index = 0
    /\ shown[1].select = 16

=============================================================================
